---- MODULE Spec2Model ----
(***************************************************************************)
(* The MIPS R4300i interpreter of cat'spj641.6.py (class MIPS_R4300i) as a *)
(* state machine: reset, load_rom, read32/write32/read8/write8, step,      *)
(* handle_syscall, run and compute_seed.                                   *)
(*                                                                         *)
(* Python integers are unbounded and the interpreter's registers can leave *)
(* the range 0..2^32-1 (LB stores val - 256, JAL stores pc + 8), so a      *)
(* Python int v is represented exactly as the pair <<h, l>> with           *)
(*     v = h * 65536 + l,   l \in 0..65535,   h = floor(v / 65536),        *)
(* which is v's two's complement split at bit 16.  Every operator below    *)
(* computes on that representation what the Python expression computes on  *)
(* v.  Small quantities (byte offsets below 2^29, register indices,        *)
(* cycle counts) are plain integers.                                       *)
(*                                                                         *)
(* The 4 MiB bytearray is represented by its non-zero bytes: a function    *)
(* from the offsets holding a non-zero byte to that byte.  fpr and fcr31   *)
(* are written by reset only and read by nothing; they are left out.       *)
(***************************************************************************)
EXTENDS Integers, Naturals, Sequences, FiniteSets, TLC

B16 == 256 * 256

\* len(self.ram): bytearray(4 * 1024 * 1024)
RamLen == 4194304

\* the literal of "return self.cycles < 2000"
StepBudget == 2000

(***************************************************************************)
(* Python integers as pairs                                                *)
(***************************************************************************)
Int2(n) == <<n \div B16, n % B16>>

Norm(h, l) == <<h + (l \div B16), l % B16>>

Add(a, b) == Norm(a[1] + b[1], a[2] + b[2])

Sub(a, b) == Norm(a[1] - b[1], a[2] - b[2])

Less(a, b) == a[1] < b[1] \/ (a[1] = b[1] /\ a[2] < b[2])

Zero == <<0, 0>>

\* v & 0xFFFFFFFF
Mask32(a) == <<a[1] % B16, a[2]>>

\* addr & 0x1FFFFFFF, a plain integer below 2^29
Phys(a) == (a[1] % 8192) * B16 + a[2]

RECURSIVE Pow2(_)
Pow2(n) == IF n = 0 THEN 1 ELSE 2 * Pow2(n - 1)

\* x & y on plain integers, negative ones in infinite two's complement
RECURSIVE BitAnd(_, _)
BitAnd(x, y) ==
    IF x = 0 \/ y = 0 THEN 0
    ELSE IF x = -1 THEN y
    ELSE IF y = -1 THEN x
    ELSE (x % 2) * (y % 2) + 2 * BitAnd(x \div 2, y \div 2)

BitOr(x, y) == x + y - BitAnd(x, y)

BitXor(x, y) == x + y - 2 * BitAnd(x, y)

And2(a, b) == <<BitAnd(a[1], b[1]), BitAnd(a[2], b[2])>>

Or2(a, b) == <<BitOr(a[1], b[1]), BitOr(a[2], b[2])>>

Xor2(a, b) == <<BitXor(a[1], b[1]), BitXor(a[2], b[2])>>

\* ~v  (= -v - 1)
Not2(a) == <<(-a[1]) - 1, 65535 - a[2]>>

\* (v << s) & 0xFFFFFFFF for 0 <= s <= 31
Shl32(a, s) ==
    IF s < 16
    THEN LET t == a[2] * Pow2(s)
         IN  <<((a[1] % Pow2(16 - s)) * Pow2(s) + (t \div B16)) % B16, t % B16>>
    ELSE <<(a[2] % Pow2(32 - s)) * Pow2(s - 16), 0>>

\* v >> s (Python's floor shift) for 0 <= s <= 31
Shr(a, s) ==
    LET b == IF s < 16 THEN a ELSE <<a[1] \div B16, a[1] % B16>>
        k == IF s < 16 THEN s ELSE s - 16
    IN  <<b[1] \div Pow2(k), (b[1] % Pow2(k)) * Pow2(16 - k) + (b[2] \div Pow2(k))>>

\* faulty variant (mutation test): the 16-bit field is zero-extended
sext16_ZeroExtends(v) == v

\* sext16: a 16-bit field as a plain signed integer
sext16(v) == IF BitAnd(v, 32768) # 0 THEN v - 65536 ELSE v

\* sext32: v - 0x100000000 if v & 0x80000000 else v
sext32(a) == IF (a[1] \div 32768) % 2 = 1 THEN <<a[1] - B16, a[2]>> ELSE a

Neg(a) == Sub(Zero, a)

\* a * k: (h * 2^16 + l) * k = (h * k) * 2^16 + l * k
Times(a, k) == Norm(a[1] * k, a[2] * k)

\* n // d and n % d for n >= 0, d > 0 (long division in base 16)
RECURSIVE DivModPos(_, _)
DivModPos(n, d) ==
    IF Less(n, d) THEN <<Zero, n>>
    ELSE LET qr == DivModPos(n, Times(d, 16))
             k  == CHOOSE k \in 0..15 : /\ ~Less(qr[2], Times(d, k))
                                        /\ Less(qr[2], Times(d, k + 1))
         IN  <<Add(Times(qr[1], 16), <<0, k>>), Sub(qr[2], Times(d, k))>>

Abs2(a) == IF Less(a, Zero) THEN Neg(a) ELSE a

\* int(a / b): the quotient truncated toward zero (b # 0; the float quotient
\* of two integers below 2^53 in magnitude truncates to the exact quotient)
TruncDiv(a, b) ==
    LET q == DivModPos(Abs2(a), Abs2(b))[1]
    IN  IF Less(a, Zero) = Less(b, Zero) THEN q ELSE Neg(q)

\* a % b of Python: the remainder takes the sign of the divisor (b # 0)
PyMod(a, b) ==
    LET r == DivModPos(Abs2(a), Abs2(b))[2]
    IN  IF r = Zero THEN Zero
        ELSE IF Less(a, Zero) = Less(b, Zero)
             THEN (IF Less(b, Zero) THEN Neg(r) ELSE r)
             ELSE (IF Less(b, Zero) THEN Add(r, b) ELSE Sub(b, r))

\* byte i (0 = least significant) of v mod 2^64
ByteOf(a, i) ==
    LET limb == IF i < 2 THEN a[2]
                ELSE IF i < 4 THEN a[1] % B16
                ELSE IF i < 6 THEN (a[1] \div B16) % B16
                ELSE ((a[1] \div B16) \div B16) % B16
    IN  IF i % 2 = 0 THEN limb % 256 ELSE limb \div 256

RECURSIVE MulCol(_, _, _, _)
MulCol(a, b, k, i) ==
    IF i > k THEN 0 ELSE ByteOf(a, i) * ByteOf(b, k - i) + MulCol(a, b, k, i + 1)

\* the bytes (least significant first) of (a * b) mod 2^64
RECURSIVE MulBytes(_, _, _, _)
MulBytes(a, b, k, carry) ==
    IF k = 8 THEN <<>>
    ELSE LET t == MulCol(a, b, k, 0) + carry
         IN  <<t % 256>> \o MulBytes(a, b, k + 1, t \div 256)

\* <<(a*b) & 0xFFFFFFFF, ((a*b) >> 32) & 0xFFFFFFFF>>
MulLoHi(a, b) ==
    LET p == MulBytes(a, b, 0, 0)
    IN  << <<p[4] * 256 + p[3], p[2] * 256 + p[1]>>,
           <<p[8] * 256 + p[7], p[6] * 256 + p[5]>> >>

\* str(v): the decimal digits of a Python int, as character codes
RECURSIVE Digits(_)
Digits(a) ==
    LET h10 == a[1] \div 10
        m   == (a[1] % 10) * B16 + a[2]
        q   == <<h10, 0>>
        qq  == Add(q, Int2(m \div 10))
    IN  IF a[1] = 0 /\ a[2] < 10 THEN <<48 + a[2]>>
        ELSE Digits(qq) \o <<48 + (m % 10)>>

PyStr(a) == IF Less(a, Zero) THEN <<45>> \o Digits(Neg(a)) ELSE Digits(a)

(***************************************************************************)
(* Memory: self.ram as the function from the offsets of its non-zero bytes *)
(***************************************************************************)
EmptyRam == [p \in {} |-> 0]

RamGet(ram, p) == IF p \in DOMAIN ram THEN ram[p] ELSE 0

RamPut(ram, p, b) ==
    IF b = 0
    THEN [q \in DOMAIN ram \ {p} |-> ram[q]]
    ELSE [q \in DOMAIN ram \cup {p} |-> IF q = p THEN b ELSE ram[q]]

\* struct.pack('>I', val & 0xFFFFFFFF) stored at ram[phys:phys+4]
RamPut32(ram, p, val) ==
    LET v == Mask32(val)
    IN  RamPut(RamPut(RamPut(RamPut(ram, p, v[1] \div 256), p + 1, v[1] % 256),
                      p + 2, v[2] \div 256), p + 3, v[2] % 256)

\* struct.unpack('>I', self.ram[phys:phys+4])[0]
RamGet32(ram, p) ==
    <<RamGet(ram, p) * 256 + RamGet(ram, p + 1),
      RamGet(ram, p + 2) * 256 + RamGet(ram, p + 3)>>

\* faulty variant (mutation test): read32 without the bounds test
read32_Unguarded(ram, addr) == RamGet32(ram, Phys(addr))

read32(ram, addr) ==
    LET phys == Phys(addr)
    IN  IF phys + 3 < RamLen THEN RamGet32(ram, phys) ELSE Zero

\* faulty variant (mutation test): write32 tests only the first byte of the span
write32_FirstByteGuard(ram, addr, val) ==
    IF Phys(addr) < RamLen THEN RamPut32(ram, Phys(addr), val) ELSE ram

write32(ram, addr, val) ==
    LET phys == Phys(addr)
    IN  IF phys + 3 < RamLen THEN RamPut32(ram, phys, val) ELSE ram

\* faulty variant (mutation test): an address past the end of RAM wraps around to its start
read8_Wraps(ram, addr) == RamGet(ram, Phys(addr) % RamLen)

read8(ram, addr) ==
    LET phys == Phys(addr)
    IN  IF phys < RamLen THEN RamGet(ram, phys) ELSE 0

write8(ram, addr, val) ==
    LET phys == Phys(addr)
    IN  IF phys < RamLen THEN RamPut(ram, phys, val[2] % 256) ELSE ram

\* SH: struct.pack('>H', self.gpr[rt] & 0xFFFF) stored at ram[phys:phys+2]
write16(ram, addr, val) ==
    LET phys == Phys(addr)
    IN  IF phys + 1 < RamLen
        THEN RamPut(RamPut(ram, phys, val[2] \div 256), phys + 1, val[2] % 256)
        ELSE ram

\* LH / LHU: struct.unpack on the slice ram[phys:phys+2].  The slice is
\* clipped to the buffer, and unpack raises struct.error on a slice shorter
\* than 2 bytes; the result here is <<raised, halfword>>.
unpack16(ram, addr) ==
    LET phys == Phys(addr)
    IN  IF phys + 2 <= RamLen
        THEN <<FALSE, RamGet(ram, phys) * 256 + RamGet(ram, phys + 1)>>
        ELSE <<TRUE, 0>>

(***************************************************************************)
(* A ROM image: the bytes `data`, then `pad` zero bytes, then the bytes    *)
(* `tail` (images longer than RAM have their last bytes in `tail`)         *)
(***************************************************************************)
ImageLen(img) == Len(img.data) + img.pad + Len(img.tail)

NoImage == [data |-> <<>>, pad |-> 0, tail |-> <<>>]

\* rom[p] for 0 <= p < len(rom)
ImageByte(img, p) ==
    IF p < Len(img.data) THEN img.data[p + 1]
    ELSE IF p < Len(img.data) + img.pad THEN 0
    ELSE img.tail[p - Len(img.data) - img.pad + 1]

\* the offsets of the non-zero bytes of the image
ImageSupport(img) ==
    {p \in 0..(Len(img.data) - 1) : img.data[p + 1] # 0}
    \cup {Len(img.data) + img.pad + i - 1 : i \in {j \in 1..Len(img.tail) : img.tail[j] # 0}}

Min(a, b) == IF a < b THEN a ELSE b

(***************************************************************************)
(* reset and load_rom                                                      *)
(***************************************************************************)
ResetState ==
    [gpr           |-> [i \in 0..31 |-> Zero],
     pc            |-> Zero,
     hi            |-> Zero,
     lo            |-> Zero,
     cp0           |-> [i \in 0..31 |-> IF i = 12 THEN <<13312, 0>>     \* 0x34000000
                                        ELSE IF i = 15 THEN <<0, 2850>>  \* 0x00000B22
                                        ELSE Zero],
     ram           |-> EmptyRam,
     rom           |-> NoImage,
     cycles        |-> 0,
     delay_slot    |-> FALSE,
     delay_pc      |-> Zero,
     halted        |-> FALSE,
     output_buffer |-> <<>>]

\* faulty variant (mutation test): reset leaves the general-purpose registers as they were
reset_KeepsRegisters(s) == [ResetState EXCEPT !.gpr = s.gpr]

\* faulty variant (mutation test): reset keeps the RAM buffer instead of allocating a zeroed one
reset_KeepsMemory(s) == [ResetState EXCEPT !.ram = s.ram]

\* reset(): every field is assigned a new value; nothing of the state before
\* the call is read
reset(s) == ResetState

\* faulty variant (mutation test): the whole image is copied, whatever the size of RAM
CopyRom_WholeImage(ram, img) ==
    LET copy_len == ImageLen(img)
        nz       == {p \in ImageSupport(img) : p < copy_len}
        keep     == {p \in DOMAIN ram : p >= copy_len}
    IN  [p \in nz \cup keep |-> IF p \in nz THEN ImageByte(img, p) ELSE ram[p]]

\* self.ram[:copy_len] = self.rom[:copy_len]
CopyRom(ram, img) ==
    LET copy_len == Min(ImageLen(img), RamLen)
        nz       == {p \in ImageSupport(img) : p < copy_len}
        keep     == {p \in DOMAIN ram : p >= copy_len}
    IN  [p \in nz \cup keep |-> IF p \in nz THEN ImageByte(img, p) ELSE ram[p]]

StackPointer == <<32799, 0>>     \* 0x801F0000
GlobalPointer == <<32768, 0>>    \* 0x80000000

\* faulty variant (mutation test): load_rom cancels a pending branch
load_rom_ClearsPending(s, img) ==
    [s EXCEPT !.rom = img,
              !.pc = Zero,
              !.ram = CopyRom(s.ram, img),
              !.gpr = [s.gpr EXCEPT ![29] = StackPointer, ![28] = GlobalPointer],
              !.delay_slot = FALSE]

\* faulty variant (mutation test): load_rom starts with an empty output buffer
load_rom_ClearsOutput(s, img) ==
    [s EXCEPT !.rom = img,
              !.pc = Zero,
              !.ram = CopyRom(s.ram, img),
              !.gpr = [s.gpr EXCEPT ![29] = StackPointer, ![28] = GlobalPointer],
              !.output_buffer = <<>>]

load_rom(s, img) ==
    [s EXCEPT !.rom = img,
              !.pc = Zero,
              !.ram = CopyRom(s.ram, img),
              !.gpr = [s.gpr EXCEPT ![29] = StackPointer, ![28] = GlobalPointer]]

(***************************************************************************)
(* step                                                                    *)
(***************************************************************************)
\* the bit fields of an instruction word (op, rs, rt, rd, shamt, funct, imm,
\* target are plain integers)
Decode(instr) ==
    [op     |-> instr[1] \div 1024,
     rs     |-> (instr[1] \div 32) % 32,
     rt     |-> instr[1] % 32,
     rd     |-> instr[2] \div 2048,
     shamt  |-> (instr[2] \div 64) % 32,
     funct  |-> instr[2] % 64,
     imm    |-> instr[2],
     target |-> (instr[1] % 1024) * B16 + instr[2]]

\* faulty variant (mutation test): the guard of step does not look at halted
CanStep_IgnoresHalted(s) == Less(s.pc, Int2(RamLen))

\* the guard of step: "if self.halted or self.pc >= len(self.ram): return False"
CanStep(s) == ~s.halted /\ Less(s.pc, Int2(RamLen))

\* faulty variant (mutation test): the pending branch target is dropped
NextPc_IgnoresPending(s) == Add(s.pc, Int2(4))

\* next_pc = self.pc + 4; if self.delay_slot: next_pc = self.delay_pc
NextPc(s) == IF s.delay_slot THEN s.delay_pc ELSE Add(s.pc, Int2(4))

SetReg(s, i, v) == [s EXCEPT !.gpr[i] = v]

\* self.delay_slot = True; self.delay_pc = t
SetBranch(s, t) == [s EXCEPT !.delay_slot = TRUE, !.delay_pc = t]

\* self.pc + 4 + (self.sext16(imm) << 2)
BranchTarget(s, imm) == Add(s.pc, Int2(4 + sext16(imm) * 4))

\* ((self.pc + 4) & 0xF0000000) | (target << 2)
JumpTarget(s, target) ==
    Or2(And2(Add(s.pc, Int2(4)), <<61440, 0>>), Int2(target * 4))

\* self.gpr[rs] + self.sext16(imm)
EffAddr(s, d) == Add(s.gpr[d.rs], Int2(sext16(d.imm)))

\* faulty variant (mutation test): the terminating zero byte is part of the string
RECURSIVE ReadStr_KeepsZero(_, _)
ReadStr_KeepsZero(ram, addr) ==
    LET c == read8(ram, addr)
    IN  IF c = 0 THEN <<0>> ELSE <<c>> \o ReadStr_KeepsZero(ram, Add(addr, <<0, 1>>))

\* the string of SYSCALL 4: bytes from addr up to the first zero byte
RECURSIVE ReadStr(_, _)
ReadStr(ram, addr) ==
    LET c == read8(ram, addr)
    IN  IF c = 0 THEN <<>> ELSE <<c>> \o ReadStr(ram, Add(addr, <<0, 1>>))

handle_syscall(s) ==
    LET syscall == s.gpr[2]
    IN  IF syscall = <<0, 1>>
        THEN [s EXCEPT !.output_buffer = Append(@, PyStr(s.gpr[4]))]
        ELSE IF syscall = <<0, 4>>
        THEN [s EXCEPT !.output_buffer = Append(@, ReadStr(s.ram, s.gpr[4]))]
        ELSE IF syscall = <<0, 10>>
        THEN [s EXCEPT !.halted = TRUE]
        ELSE s

Flag(b) == IF b THEN <<0, 1>> ELSE Zero

Ok(s) == [s |-> s, exc |-> "none"]

Raise(s, e) == [s |-> s, exc |-> e]

\* faulty variant (mutation test): DIV by zero clears HI and LO
ExecDiv_ClearsOnZero(s, rs, rt) ==
    IF rt # Zero
    THEN Ok([s EXCEPT !.lo = Mask32(TruncDiv(sext32(rs), sext32(rt))),
                      !.hi = Mask32(PyMod(sext32(rs), sext32(rt)))])
    ELSE Ok([s EXCEPT !.lo = Zero, !.hi = Zero])

\* DIV: "if self.gpr[rt] != 0:" lo = int(rs / rt), hi = int(rs % rt) on the
\* sign-extended operands; nothing is assigned when gpr[rt] is 0
ExecDiv(s, rs, rt) ==
    IF rt # Zero
    THEN Ok([s EXCEPT !.lo = Mask32(TruncDiv(sext32(rs), sext32(rt))),
                      !.hi = Mask32(PyMod(sext32(rs), sext32(rt)))])
    ELSE Ok(s)

\* faulty variant (mutation test): an unrecognized instruction halts the interpreter
Unimplemented_Halts(s) == Ok([s EXCEPT !.halted = TRUE])

\* an opcode, function code or COP0 sub-opcode that no branch of the
\* if/elif chain matches: nothing is executed
Unimplemented(s) == Ok(s)

\* opcode 0x00 (SPECIAL), dispatched on funct
ExecSpecial(s, d) ==
    LET rs == s.gpr[d.rs]
        rt == s.gpr[d.rt]
    IN  CASE d.funct = 0  -> Ok(SetReg(s, d.rd, Shl32(rt, d.shamt)))                    \* SLL
          [] d.funct = 2  -> Ok(SetReg(s, d.rd, Shr(Mask32(rt), d.shamt)))              \* SRL
          [] d.funct = 3  -> Ok(SetReg(s, d.rd, Mask32(Shr(sext32(rt), d.shamt))))      \* SRA
          [] d.funct = 4  -> Ok(SetReg(s, d.rd, Shl32(rt, rs[2] % 32)))                 \* SLLV
          [] d.funct = 6  -> Ok(SetReg(s, d.rd, Shr(Mask32(rt), rs[2] % 32)))           \* SRLV
          [] d.funct = 8  -> Ok(SetBranch(s, rs))                                       \* JR
          [] d.funct = 9  -> LET s1 == SetReg(s, d.rd, Add(s.pc, Int2(8)))              \* JALR
                             IN  Ok(SetBranch(s1, s1.gpr[d.rs]))
          [] d.funct = 12 -> Ok(handle_syscall(s))                                      \* SYSCALL
          [] d.funct = 13 -> Ok([s EXCEPT !.halted = TRUE])                             \* BREAK
          [] d.funct = 16 -> Ok(SetReg(s, d.rd, s.hi))                                  \* MFHI
          [] d.funct = 17 -> Ok([s EXCEPT !.hi = rs])                                   \* MTHI
          [] d.funct = 18 -> Ok(SetReg(s, d.rd, s.lo))                                  \* MFLO
          [] d.funct = 19 -> Ok([s EXCEPT !.lo = rs])                                   \* MTLO
          [] d.funct = 24 -> LET m == MulLoHi(sext32(rs), sext32(rt))                   \* MULT
                             IN  Ok([s EXCEPT !.lo = m[1], !.hi = m[2]])
          [] d.funct = 25 -> LET m == MulLoHi(Mask32(rs), Mask32(rt))                   \* MULTU
                             IN  Ok([s EXCEPT !.lo = m[1], !.hi = m[2]])
          [] d.funct = 26 -> ExecDiv(s, rs, rt)                                         \* DIV
          [] d.funct = 27 ->                                                            \* DIVU
                IF rt # Zero
                THEN IF Mask32(rt) = Zero
                     THEN Raise(s, "ZeroDivisionError")
                     ELSE LET qr == DivModPos(Mask32(rs), Mask32(rt))
                          IN  Ok([s EXCEPT !.lo = qr[1], !.hi = qr[2]])
                ELSE Ok(s)
          [] d.funct = 32 -> Ok(SetReg(s, d.rd, Mask32(Add(rs, rt))))                   \* ADD
          [] d.funct = 33 -> Ok(SetReg(s, d.rd, Mask32(Add(rs, rt))))                   \* ADDU
          [] d.funct = 34 -> Ok(SetReg(s, d.rd, Mask32(Sub(rs, rt))))                   \* SUB
          [] d.funct = 35 -> Ok(SetReg(s, d.rd, Mask32(Sub(rs, rt))))                   \* SUBU
          [] d.funct = 36 -> Ok(SetReg(s, d.rd, And2(rs, rt)))                          \* AND
          [] d.funct = 37 -> Ok(SetReg(s, d.rd, Or2(rs, rt)))                           \* OR
          [] d.funct = 38 -> Ok(SetReg(s, d.rd, Xor2(rs, rt)))                          \* XOR
          [] d.funct = 39 -> Ok(SetReg(s, d.rd, Mask32(Not2(Or2(rs, rt)))))             \* NOR
          [] d.funct = 42 -> Ok(SetReg(s, d.rd, Flag(Less(sext32(rs), sext32(rt)))))    \* SLT
          [] d.funct = 43 -> Ok(SetReg(s, d.rd, Flag(Less(Mask32(rs), Mask32(rt)))))    \* SLTU
          [] OTHER        -> Unimplemented(s)

\* LH: struct.unpack('>h', ...)[0] & 0xFFFFFFFF
LoadHalfSigned(s, d) ==
    LET u == unpack16(s.ram, EffAddr(s, d))
    IN  IF u[1] THEN Raise(s, "struct.error")
        ELSE Ok(SetReg(s, d.rt, Mask32(Int2(sext16(u[2])))))

\* LHU: struct.unpack('>H', ...)[0]
LoadHalfUnsigned(s, d) ==
    LET u == unpack16(s.ram, EffAddr(s, d))
    IN  IF u[1] THEN Raise(s, "struct.error")
        ELSE Ok(SetReg(s, d.rt, Int2(u[2])))

\* the opcode dispatch of step (lines 105-254), on the state in which the
\* pending branch has already been consumed
Execute(s, d) ==
    LET rs == s.gpr[d.rs]
        rt == s.gpr[d.rt]
    IN  CASE d.op = 0  -> ExecSpecial(s, d)
          [] d.op = 2  -> Ok(SetBranch(s, JumpTarget(s, d.target)))                     \* J
          [] d.op = 3  -> Ok(SetBranch(SetReg(s, 31, Add(s.pc, Int2(8))),               \* JAL
                                       JumpTarget(s, d.target)))
          [] d.op = 4  -> Ok(IF rs = rt THEN SetBranch(s, BranchTarget(s, d.imm)) ELSE s)   \* BEQ
          [] d.op = 5  -> Ok(IF rs # rt THEN SetBranch(s, BranchTarget(s, d.imm)) ELSE s)   \* BNE
          [] d.op = 6  -> Ok(IF ~Less(Zero, sext32(rs))                                 \* BLEZ
                             THEN SetBranch(s, BranchTarget(s, d.imm)) ELSE s)
          [] d.op = 7  -> Ok(IF Less(Zero, sext32(rs))                                  \* BGTZ
                             THEN SetBranch(s, BranchTarget(s, d.imm)) ELSE s)
          [] d.op = 8  -> Ok(SetReg(s, d.rt, Mask32(Add(rs, Int2(sext16(d.imm))))))     \* ADDI
          [] d.op = 9  -> Ok(SetReg(s, d.rt, Mask32(Add(rs, Int2(sext16(d.imm))))))     \* ADDIU
          [] d.op = 10 -> Ok(SetReg(s, d.rt,                                            \* SLTI
                                    Flag(Less(sext32(rs), Int2(sext16(d.imm))))))
          [] d.op = 11 -> Ok(SetReg(s, d.rt,                                            \* SLTIU
                                    Flag(Less(Mask32(rs), Mask32(Int2(sext16(d.imm)))))))
          [] d.op = 12 -> Ok(SetReg(s, d.rt, And2(rs, <<0, d.imm>>)))                   \* ANDI
          [] d.op = 13 -> Ok(SetReg(s, d.rt, Or2(rs, <<0, d.imm>>)))                    \* ORI
          [] d.op = 14 -> Ok(SetReg(s, d.rt, Xor2(rs, <<0, d.imm>>)))                   \* XORI
          [] d.op = 15 -> Ok(SetReg(s, d.rt, <<d.imm, 0>>))                             \* LUI
          [] d.op = 32 -> LET val == read8(s.ram, EffAddr(s, d))                        \* LB
                          IN  Ok(SetReg(s, d.rt, Int2(IF val < 128 THEN val ELSE val - 256)))
          [] d.op = 33 -> LoadHalfSigned(s, d)                                          \* LH
          [] d.op = 35 -> Ok(SetReg(s, d.rt, read32(s.ram, EffAddr(s, d))))             \* LW
          [] d.op = 36 -> Ok(SetReg(s, d.rt, Int2(read8(s.ram, EffAddr(s, d)))))        \* LBU
          [] d.op = 37 -> LoadHalfUnsigned(s, d)                                        \* LHU
          [] d.op = 40 -> Ok([s EXCEPT !.ram = write8(s.ram, EffAddr(s, d), rt)])       \* SB
          [] d.op = 41 -> Ok([s EXCEPT !.ram = write16(s.ram, EffAddr(s, d), rt)])      \* SH
          [] d.op = 43 -> Ok([s EXCEPT !.ram = write32(s.ram, EffAddr(s, d), rt)])      \* SW
          [] d.op = 16 ->                                                               \* COP0
                IF d.rs = 0 THEN Ok(SetReg(s, d.rt, s.cp0[d.rd]))                       \* MFC0
                ELSE IF d.rs = 4 THEN Ok([s EXCEPT !.cp0[d.rd] = rt])                   \* MTC0
                ELSE Unimplemented(s)
          [] OTHER     -> Unimplemented(s)

\* faulty variant (mutation test): register 0 is not forced to zero
ZeroReg_Skipped(gpr) == gpr

\* self.gpr[0] = 0
ZeroReg(gpr) == [gpr EXCEPT ![0] = Zero]

\* return self.cycles < 2000
StepReturn(cycles) == cycles < StepBudget

\* step(): the state it leaves, the value it returns, the exception it raises.
\* An exception leaves the state as the statements before it made it: the
\* pending branch already consumed, pc and cycles not yet advanced.
Retire(s, next_pc) ==
    [s EXCEPT !.gpr = ZeroReg(@), !.pc = next_pc, !.cycles = @ + 1]

Returned(s) == [s |-> s, ret |-> StepReturn(s.cycles), exc |-> "none"]

Outcome(r, next_pc) ==
    IF r.exc # "none" THEN [s |-> r.s, ret |-> FALSE, exc |-> r.exc]
    ELSE Returned(Retire(r.s, next_pc))

step(s) ==
    IF ~CanStep(s) THEN [s |-> s, ret |-> FALSE, exc |-> "none"]
    ELSE Outcome(Execute([s EXCEPT !.delay_slot = FALSE],
                         Decode(read32(s.ram, s.pc))),
                 NextPc(s))

(***************************************************************************)
(* compute_seed                                                            *)
(***************************************************************************)
\* faulty variant (mutation test): register i is weighted by i instead of i + 1
MulSmall32_ZeroBased(a, k) ==
    LET t == a[2] * (k - 1)
    IN  <<((a[1] % B16) * (k - 1) + (t \div B16)) % B16, t % B16>>

\* (r * k) & 0xFFFFFFFF for 1 <= k <= 32
MulSmall32(a, k) ==
    LET t == a[2] * k
    IN  <<((a[1] % B16) * k + (t \div B16)) % B16, t % B16>>

\* XOR is associative and commutative, so the loops' running XOR is the XOR
\* of the halves; the ranges are split in two to keep the evaluation shallow.
RECURSIVE XorRegs(_, _, _)
XorRegs(gpr, i, j) ==
    IF i = j THEN MulSmall32(gpr[i], i + 1)
    ELSE LET m == (i + j) \div 2
         IN  Xor2(XorRegs(gpr, i, m), XorRegs(gpr, m + 1, j))

\* the XOR of read32(4*i) .. read32(4*j)
RECURSIVE XorMem(_, _, _)
XorMem(ram, i, j) ==
    IF i = j THEN read32(ram, Int2(4 * i))
    ELSE LET m == (i + j) \div 2
         IN  Xor2(XorMem(ram, i, m), XorMem(ram, m + 1, j))

compute_seed(s) ==
    LET seed1 == Xor2(Int2(s.cycles), XorRegs(s.gpr, 0, 31))
        seed2 == Xor2(seed1, Xor2(s.hi, s.lo))
    IN  Mask32(Xor2(seed2, XorMem(s.ram, 0, 63)))

(***************************************************************************)
(* ROMBuilder: instruction encoders and the byte image of a word list      *)
(***************************************************************************)
r_type(rs, rt, rd, shamt, funct) ==
    <<(rs % 32) * 32 + (rt % 32), (rd % 32) * 2048 + (shamt % 32) * 64 + (funct % 64)>>

i_type(op, rs, rt, imm) ==
    <<(op % 64) * 1024 + (rs % 32) * 32 + (rt % 32), imm % B16>>

j_type(op, target) ==
    <<(op % 64) * 1024 + ((target \div B16) % 1024), target % B16>>

\* b''.join(struct.pack('>I', i) for i in instrs)
RECURSIVE PackWords(_)
PackWords(ws) ==
    IF ws = <<>> THEN <<>>
    ELSE LET w == Head(ws)
         IN  <<w[1] \div 256, w[1] % 256, w[2] \div 256, w[2] % 256>> \o PackWords(Tail(ws))

WordsImage(ws, pad) == [data |-> PackWords(ws), pad |-> pad, tail |-> <<>>]

(***************************************************************************)
(* The state machine                                                       *)
(*                                                                         *)
(* cpu    the interpreter object (the fields of MIPS_R4300i)               *)
(* frame  the activation of run(max_cycles), if one is in its while loop:  *)
(*        run is one RunCall followed by one RunIter per iteration of      *)
(*        "while self.step() and self.cycles < max_cycles", and no other   *)
(*        call starts while it is active (the interpreter is               *)
(*        single-threaded)                                                 *)
(* ret    the latest completed call: its name, arguments, result, the      *)
(*        cycle count at which it was entered, and the name of the call    *)
(*        completed before it                                              *)
(* peer   a second interpreter object with the activation of its run (used *)
(*        by the two-interpreter specification; the other specifications   *)
(*        leave it as constructed)                                         *)
(* steps  the latest step invocations (at most two), oldest first, direct  *)
(*        or from run's loop, since the last call that was not a step:     *)
(*        the pc and the word fetched, whether an instruction was executed *)
(*        (the guard of step passed), the exception raised, and the        *)
(*        pending branch the invocation left                               *)
(***************************************************************************)
VARIABLES cpu, frame, ret, steps, peer

vars == <<cpu, frame, ret, steps, peer>>

NoFrame == [active |-> FALSE, max_cycles |-> 0, at |-> 0]

Result(call, arg, val, ok, exc, at, prev) ==
    [call |-> call, arg |-> arg, val |-> val, ok |-> ok, exc |-> exc, at |-> at,
     prev |-> prev]

\* a second interpreter object, constructed but not yet loaded
NoPeer ==
    [cpu |-> ResetState, active |-> FALSE, max_cycles |-> 0, done |-> FALSE,
     val |-> Zero, exc |-> "none"]

StepRecord(s, r) ==
    [pc      |-> s.pc,
     instr   |-> read32(s.ram, s.pc),
     ran     |-> CanStep(s),
     exc     |-> r.exc,
     pending |-> r.s.delay_slot,
     target  |-> r.s.delay_pc]

Shift(h, x) == IF Len(h) < 2 THEN Append(h, x) ELSE <<h[2], x>>

\* MIPS_R4300i(): __init__ calls reset
Init ==
    /\ cpu = ResetState
    /\ frame = NoFrame
    /\ ret = Result("reset", Zero, Zero, FALSE, "none", 0, "new")
    /\ steps = <<>>
    /\ peer = NoPeer

Reset ==
    /\ ~frame.active
    /\ cpu' = reset(cpu)
    /\ ret' = Result("reset", Zero, Zero, FALSE, "none", cpu.cycles, ret.call)
    /\ steps' = <<>>
    /\ UNCHANGED <<frame, peer>>

LoadRom(images) ==
    /\ ~frame.active
    /\ \E img \in images :
          /\ cpu' = load_rom(cpu, img)
          /\ ret' = Result("load_rom", Zero, Zero, FALSE, "none", cpu.cycles, ret.call)
    /\ steps' = <<>>
    /\ UNCHANGED <<frame, peer>>

Write32(addrs, vals) ==
    /\ ~frame.active
    /\ \E a \in addrs, v \in vals :
          /\ cpu' = [cpu EXCEPT !.ram = write32(cpu.ram, a, v)]
          /\ ret' = Result("write32", a, v, FALSE, "none", cpu.cycles, ret.call)
    /\ steps' = <<>>
    /\ UNCHANGED <<frame, peer>>

Write8(addrs, vals) ==
    /\ ~frame.active
    /\ \E a \in addrs, v \in vals :
          /\ cpu' = [cpu EXCEPT !.ram = write8(cpu.ram, a, v)]
          /\ ret' = Result("write8", a, v, FALSE, "none", cpu.cycles, ret.call)
    /\ steps' = <<>>
    /\ UNCHANGED <<frame, peer>>

\* a direct call of step(), while the cycle count is below `cap`
Step(cap) ==
    /\ ~frame.active
    /\ cpu.cycles < cap
    /\ \E r \in {step(cpu)} :
           /\ cpu' = r.s
           /\ ret' = Result("step", Zero, Zero, r.ret, r.exc, cpu.cycles, ret.call)
           /\ steps' = Shift(steps, StepRecord(cpu, r))
    /\ UNCHANGED <<frame, peer>>

\* run(max_cycles) is entered
RunCall(budgets, cap) ==
    /\ ~frame.active
    /\ cpu.cycles < cap
    /\ \E n \in budgets :
          frame' = [active |-> TRUE, max_cycles |-> n, at |-> cpu.cycles]
    /\ UNCHANGED <<cpu, ret, steps, peer>>

\* "while self.step() and self.cycles < max_cycles: pass"
RunContinues(r, max_cycles) == r.ret /\ r.s.cycles < max_cycles

\* one evaluation of the loop condition of run: it calls step, and either the
\* loop goes on or run returns compute_seed() (or the exception of step
\* leaves run)
RunIter ==
    /\ frame.active
    /\ \E r \in {step(cpu)} :
           /\ cpu' = r.s
           /\ steps' = Shift(steps, StepRecord(cpu, r))
           /\ IF r.exc # "none"
              THEN /\ frame' = NoFrame
                   /\ ret' = Result("run", Int2(frame.max_cycles), Zero, FALSE,
                                    r.exc, frame.at, ret.call)
              ELSE IF RunContinues(r, frame.max_cycles)
              THEN UNCHANGED <<frame, ret>>
              ELSE /\ frame' = NoFrame
                   /\ ret' = Result("run", Int2(frame.max_cycles), compute_seed(r.s),
                                    FALSE, "none", frame.at, ret.call)
    /\ UNCHANGED peer

\* a direct call of compute_seed()
Seed ==
    /\ ~frame.active
    /\ ret' = Result("compute_seed", Zero, compute_seed(cpu), FALSE, "none",
                     cpu.cycles, ret.call)
    /\ UNCHANGED <<cpu, frame, steps, peer>>

\* the second interpreter: load_rom on the newly constructed object
PeerLoadRom(images) ==
    /\ peer.cpu.rom = NoImage
    /\ \E img \in images : peer' = [peer EXCEPT !.cpu = load_rom(peer.cpu, img)]
    /\ UNCHANGED <<cpu, frame, ret, steps>>

\* the second interpreter: run(max_cycles) is entered, once
PeerRunCall(budgets) ==
    /\ peer.cpu.rom # NoImage
    /\ ~peer.active
    /\ ~peer.done
    /\ \E n \in budgets : peer' = [peer EXCEPT !.active = TRUE, !.max_cycles = n]
    /\ UNCHANGED <<cpu, frame, ret, steps>>

\* the second interpreter: one evaluation of the loop condition of run
PeerRunIter ==
    /\ peer.active
    /\ \E r \in {step(peer.cpu)} :
           peer' = IF r.exc # "none"
                   THEN [peer EXCEPT !.cpu = r.s, !.active = FALSE, !.done = TRUE,
                                     !.exc = r.exc]
                   ELSE IF RunContinues(r, peer.max_cycles)
                   THEN [peer EXCEPT !.cpu = r.s]
                   ELSE [peer EXCEPT !.cpu = r.s, !.active = FALSE, !.done = TRUE,
                                     !.val = compute_seed(r.s)]
    /\ UNCHANGED <<cpu, frame, ret, steps>>

(***************************************************************************)
(* Inputs of the control-flow specification                                *)
(***************************************************************************)
NOP        == r_type(0, 0, 0, 0, 0)
ADDIU_t0   == i_type(9, 0, 8, 1)        \* ADDIU $8,$0,1
ADDIU_zero == i_type(9, 0, 0, 7)        \* ADDIU $0,$0,7
ADDIU_v0   == i_type(9, 0, 2, 10)       \* ADDIU $2,$0,10
BEQ_always == i_type(4, 0, 0, 1)        \* BEQ  $0,$0,+1
BNE_t0     == i_type(5, 8, 0, 65535)    \* BNE  $8,$0,-1
BLEZ_t0    == i_type(6, 8, 0, 2)        \* BLEZ $8,+2
BGTZ_t0    == i_type(7, 8, 0, 1)        \* BGTZ $8,+1
J_8        == j_type(2, 2)              \* J    0x8
JAL_0      == j_type(3, 0)              \* JAL  0x0
JR_ra      == r_type(31, 0, 0, 0, 8)    \* JR   $31
JALR_t0    == r_type(8, 0, 0, 0, 9)     \* JALR $0,$8
LH_in      == i_type(33, 0, 9, 2)       \* LH   $9,2($0)
LH_oob     == i_type(33, 0, 9, 65535)   \* LH   $9,-1($0)
LHU_oob    == i_type(37, 0, 9, 65535)   \* LHU  $9,-1($0)
BREAK      == r_type(0, 0, 0, 0, 13)
SYSCALL    == r_type(0, 0, 0, 0, 12)

Pool == {NOP, ADDIU_t0, ADDIU_zero, ADDIU_v0, BEQ_always, BNE_t0, BLEZ_t0, BGTZ_t0,
         J_8, JAL_0, JR_ra, JALR_t0, LH_in, LH_oob, LHU_oob, BREAK, SYSCALL}

\* the longest image, in instruction words
MaxImgLen == 2

\* direct step calls and run calls start while cycles is below this
MaxCycles == 4

RECURSIVE WordSeqs(_, _)
WordSeqs(pool, n) ==
    IF n = 0 THEN {<<>>}
    ELSE LET shorter == WordSeqs(pool, n - 1)
         IN  shorter \cup {Append(ws, w) : ws \in {x \in shorter : Len(x) = n - 1}, w \in pool}

Images == {WordsImage(ws, 0) : ws \in WordSeqs(Pool, MaxImgLen) \ {<<>>}}

\* images loaded over an earlier one, without a reset in between
ReloadImages == {WordsImage(<<ADDIU_t0, BREAK>>, 0)}

Budgets == {0, 3}

Boot == LoadRom(IF cpu.rom = NoImage THEN Images ELSE ReloadImages)

StepCall == Step(MaxCycles)

Run == RunCall(Budgets, MaxCycles)

Next == Reset \/ Boot \/ StepCall \/ Run \/ RunIter

Spec == Init /\ [][Next]_vars

(***************************************************************************)
(* Inputs of the memory specification: direct calls of write32 and write8  *)
(* and store instructions, at addresses around the end of RAM and at       *)
(* aliases of address 0                                                    *)
(***************************************************************************)
LUI_t2      == i_type(15, 0, 10, 64)      \* LUI   $10,0x0040  ($10 = len(ram))
ADDIU_t0x   == i_type(9, 0, 8, 4660)      \* ADDIU $8,$0,0x1234
SW_last     == i_type(43, 10, 8, 65532)   \* SW $8,-4($10)  the last word of RAM
SW_straddle == i_type(43, 10, 8, 65534)   \* SW $8,-2($10)  2 bytes in, 2 bytes out
SH_last     == i_type(41, 10, 8, 65534)   \* SH $8,-2($10)
SH_straddle == i_type(41, 10, 8, 65535)   \* SH $8,-1($10)  1 byte in, 1 byte out
SB_last     == i_type(40, 10, 8, 65535)   \* SB $8,-1($10)
SB_outside  == i_type(40, 10, 8, 0)       \* SB $8,0($10)

Stores == {SW_last, SW_straddle, SH_last, SH_straddle, SB_last, SB_outside}

MemImages == {WordsImage(<<LUI_t2, ADDIU_t0x, st>>, 0) : st \in Stores}

\* direct step calls of the memory specification start below this cycle count
MemCycles == 3

LastWord == Int2(RamLen - 4)

\* 0x80000100 (an alias of offset 0x100), the last word, a span that
\* straddles the end of RAM, and 0x1FFFFFFC
MemAddrs == {<<32768, 256>>, LastWord, Int2(RamLen - 2), <<8191, 65532>>}

MemVals == {<<4660, 22136>>, <<65535, 65535>>}

ByteAddrs == {Int2(RamLen - 1), Int2(RamLen)}

ByteVals == {<<1, 171>>}

MemBoot == cpu.rom = NoImage /\ LoadRom(MemImages)

MemWrite32 == Write32(MemAddrs, MemVals)

MemWrite8 == Write8(ByteAddrs, ByteVals)

MemStep == Step(MemCycles)

NextMem == Reset \/ MemBoot \/ MemWrite32 \/ MemWrite8 \/ MemStep

SpecMem == Init /\ [][NextMem]_vars

(***************************************************************************)
(* Inputs of the budget specification: images that never halt, run from a  *)
(* newly loaded interpreter with a budget on either side of 2000           *)
(***************************************************************************)
J_0 == j_type(2, 0)                       \* J 0x0

BudgetImages == {WordsImage(<<NOP>>, 0), WordsImage(<<J_0, ADDIU_t0>>, 0)}

BigBudgets == {StepBudget - 1, StepBudget + 1}

BudgetBoot == cpu.rom = NoImage /\ LoadRom(BudgetImages)

BudgetRun == cpu.rom # NoImage /\ RunCall(BigBudgets, 1)

NextBudget == BudgetBoot \/ BudgetRun \/ RunIter

SpecBudget == Init /\ [][NextBudget]_vars

(***************************************************************************)
(* Inputs of the two-interpreter specification: the first interpreter is   *)
(* reset, loaded and run any number of times (load_rom only follows        *)
(* reset); the second is constructed, loaded and run once                  *)
(***************************************************************************)
PairImages ==
    {WordsImage(<<NOP>>, 0),
     WordsImage(<<ADDIU_t0, BREAK>>, 0),
     WordsImage(<<BEQ_always, ADDIU_t0>>, 0),
     WordsImage(<<ADDIU_v0, SYSCALL>>, 0),
     WordsImage(<<JAL_0, ADDIU_t0>>, 0),
     WordsImage(<<LH_oob>>, 0)}

PairBudgets == {1, 3}

FreshBoot == ret.call = "reset" /\ LoadRom(PairImages)

PairRun == cpu.rom # NoImage /\ RunCall(PairBudgets, MaxCycles)

PeerBoot == PeerLoadRom(PairImages)

PeerRun == PeerRunCall(PairBudgets)

NextPair == Reset \/ FreshBoot \/ PairRun \/ RunIter \/ PeerBoot \/ PeerRun \/ PeerRunIter

SpecPair == Init /\ [][NextPair]_vars

(***************************************************************************)
(* Claims                                                                  *)
(***************************************************************************)
LastStep == steps[Len(steps)]

\* "PC is outside RAM"
PcOutsideRam(s) == Less(s.pc, Zero) \/ ~Less(s.pc, Int2(RamLen))

\* two consecutive step invocations, the first of which executed a taken
\* branch or jump at P (it left a pending branch) and the second of which
\* executed the instruction at P+4
BranchThenSlot ==
    /\ Len(steps) = 2
    /\ steps[1].ran
    /\ steps[1].exc = "none"
    /\ steps[1].pending
    /\ steps[2].ran
    /\ steps[2].pc = Add(steps[1].pc, Int2(4))

\* C1: delay-slot law.  After a step that executed a taken branch or jump at
\* P with target T and a next step that executed the instruction at P+4
\* (whatever it is), PC equals T.
C1_DelaySlotLaw == BranchThenSlot => cpu.pc = steps[1].target

\* C2: no step ends in an exception, whatever the instruction word and the
\* registers are.
C2_StepNeverRaises == steps # <<>> => LastStep.exc = "none"

\* C3: in every reachable state (between any calls of reset, load_rom, step
\* and run, and between the iterations of run) general-purpose register 0
\* is 0.
C3_RegisterZero == cpu.gpr[0] = Zero

\* C3 witness: a step has executed an instruction whose destination field
\* names register 0 with a non-zero result (ADDIU $0,$0,7, or JALR $0,$8).
C3_Witness ==
    /\ steps # <<>>
    /\ LastStep.ran
    /\ LastStep.exc = "none"
    /\ LastStep.instr \in {ADDIU_zero, JALR_t0}
    /\ cpu.gpr[0] = Zero

\* C4: run(N) with N > 2000 on a newly reset and loaded interpreter, for
\* an image that never halts and keeps PC inside RAM, returns with the cycle
\* count equal to N.
C4_BudgetHonoured ==
    (/\ ret.call = "run"
     /\ ~frame.active
     /\ ret.prev = "load_rom"
     /\ ret.at = 0
     /\ ret.exc = "none"
     /\ Less(Int2(StepBudget), ret.arg)
     /\ ~cpu.halted
     /\ ~PcOutsideRam(cpu)) => Int2(cpu.cycles) = ret.arg

\* C5: halted is terminal.  From a halted state every call other than reset
\* leaves halted true; a call of step returns False and leaves the whole
\* interpreter state unchanged, and so does the step that run makes (run
\* then returns at once).
C5_HaltedIsTerminal ==
    [][(cpu.halted /\ ~Reset) =>
          /\ cpu'.halted
          /\ StepCall => (cpu' = cpu /\ ~ret'.ok)
          /\ RunIter => (cpu' = cpu /\ ~frame'.active)]_vars

\* C5 witness: step was called on a halted interpreter and returned False
\* without executing an instruction.
C5_Witness ==
    /\ cpu.halted
    /\ ret.call = "step"
    /\ ~ret.ok
    /\ ret.exc = "none"
    /\ steps # <<>>
    /\ ~LastStep.ran

\* the addresses of the memory specification whose masked 4-byte span is not
\* entirely inside RAM
OutsideAddrs == {a \in MemAddrs : Phys(a) + 3 >= RamLen}

\* C6: memory word round trip.  When write32(a, v) has returned for an
\* address whose masked span is inside RAM, read32(a) is v; and in every
\* reachable state read32 is 0 at every address whose masked span is not
\* entirely inside RAM.
C6_WordRoundTrip ==
    /\ (ret.call = "write32" /\ Phys(ret.arg) + 3 < RamLen) =>
           read32(cpu.ram, ret.arg) = ret.val
    /\ \A a \in OutsideAddrs : read32(cpu.ram, a) = Zero

\* C6 witness: write32 has stored 0xFFFFFFFF in the last word of RAM, so the
\* last bytes of RAM are non-zero under the spans that straddle its end.
C6_Witness ==
    /\ ret.call = "write32"
    /\ ret.arg = LastWord
    /\ ret.val = <<65535, 65535>>
    /\ read32(cpu.ram, LastWord) = ret.val
    /\ read32(cpu.ram, Int2(RamLen - 2)) = Zero

\* the instruction at pc is a store (SW, SH, SB) whose masked span is not
\* entirely inside RAM
StoreSpanOutside(s) ==
    /\ CanStep(s)
    /\ \E d \in {Decode(read32(s.ram, s.pc))} :
          \/ d.op = 43 /\ Phys(EffAddr(s, d)) + 3 >= RamLen
          \/ d.op = 41 /\ Phys(EffAddr(s, d)) + 1 >= RamLen
          \/ d.op = 40 /\ Phys(EffAddr(s, d)) >= RamLen

\* C7: a store whose masked span is not entirely inside RAM is dropped
\* whole.  write32 and write8 at such an address leave the interpreter
\* unchanged, and a step that executes such an SW, SH or SB leaves every
\* byte of memory unchanged and raises nothing.
C7_OutsideStoresDropped ==
    [][/\ (MemWrite32 /\ Phys(ret'.arg) + 3 >= RamLen) => cpu' = cpu
       /\ (MemWrite8 /\ Phys(ret'.arg) >= RamLen) => cpu' = cpu
       /\ (MemStep /\ StoreSpanOutside(cpu)) =>
              (cpu'.ram = cpu.ram /\ ret'.exc = "none")]_vars

\* C7 witness: a step has executed SW $8,-2($10) with $8 = 0x1234 and
\* $10 = len(ram): two bytes of the span are inside RAM, two outside.
C7_Witness ==
    /\ ret.call = "step"
    /\ LastStep.ran
    /\ LastStep.instr = SW_straddle
    /\ LastStep.exc = "none"
    /\ cpu.gpr[8] = <<0, 4660>>
    /\ cpu.gpr[10] = Int2(RamLen)

ResetCleared(s) ==
    /\ \A i \in (0..31) \ {28, 29} : s.gpr[i] = Zero
    /\ s.hi = Zero
    /\ s.lo = Zero
    /\ s.pc = Zero
    /\ s.cycles = 0
    /\ ~s.halted
    /\ ~s.delay_slot

\* C8 (as amended): when reset has returned, every general-purpose register
\* (28 and 29 included), HI and LO are 0, PC is 0, the cycle count is 0, the
\* interpreter is not halted and no branch is pending; registers 29 and 28
\* hold 0x801F0000 and 0x80000000 when load_rom has returned.
C8_ResetThenLoad ==
    /\ (ret.call = "reset" /\ ~frame.active) =>
          (ResetCleared(cpu) /\ cpu.gpr[29] = Zero /\ cpu.gpr[28] = Zero)
    /\ (ret.call = "load_rom" /\ ~frame.active) =>
          (cpu.gpr[29] = StackPointer /\ cpu.gpr[28] = GlobalPointer /\ cpu.pc = Zero)

\* C8 witness: reset has returned on an interpreter that had executed
\* instructions of a loaded image.
C8_Witness ==
    /\ ret.call = "reset"
    /\ ~frame.active
    /\ ret.at > 0
    /\ ret.prev \in {"step", "run"}
    /\ cpu.gpr[29] = Zero

\* C8 as stated: when reset alone has returned, registers 29 and 28 hold
\* their presets and everything else is cleared.
C8_PresetsAfterReset ==
    (ret.call = "reset" /\ ~frame.active) =>
        (ResetCleared(cpu) /\ cpu.gpr[29] = StackPointer /\ cpu.gpr[28] = GlobalPointer)

\* C9: every activation of run ends by returning, and when it has returned
\* the interpreter is halted, or PC is outside RAM, or the cycle count is at
\* least max_cycles, or the cycle count has reached 2000.
C9_RunReturns ==
    (ret.call = "run" /\ ~frame.active) =>
        /\ ret.exc = "none"
        /\ \/ cpu.halted
           \/ PcOutsideRam(cpu)
           \/ ~Less(Int2(cpu.cycles), ret.arg)
           \/ cpu.cycles >= StepBudget

\* both interpreters were loaded with the same image after a reset and have
\* ended run(N) with the same N
SameRunEnded ==
    /\ ret.call = "run"
    /\ ~frame.active
    /\ ret.prev = "load_rom"
    /\ peer.done
    /\ peer.cpu.rom = cpu.rom
    /\ Int2(peer.max_cycles) = ret.arg

\* C10: determinism.  Two interpreters that were each reset, loaded with
\* the same image and driven by run(N) with the same N end in the same state
\* (registers, HI, LO, PC, cycle count, halted, memory, output buffer and
\* the rest), and run ends the same way for both: the same seed, or the same
\* exception.
C10_Determinism ==
    SameRunEnded => (cpu = peer.cpu /\ ret.val = peer.val /\ ret.exc = peer.exc)

\* C10 witness: both interpreters have returned from run(3) on the same
\* image with three instructions executed and a non-zero seed.
C10_Witness ==
    /\ SameRunEnded
    /\ ret.exc = "none"
    /\ cpu.cycles = 3
    /\ peer.cpu.cycles = 3
    /\ ret.val # Zero
    /\ ret.val = peer.val

(***************************************************************************)
(* Inputs of the seed specification: images that leave negative values in  *)
(* registers and HI (LB of a byte above 0x7F), a register whose weighted   *)
(* product overflows 32 bits, and non-zero words at 252 and at 256, the    *)
(* last address compute_seed reads and the first it does not               *)
(***************************************************************************)
\* the length of the images drawn from the three-word pool, in words
SeedImgLen == 2

\* direct step calls and run calls start while cycles is below this
SeedCycles == 5

SeedImages ==
    {WordsImage(ws, 0) :
        ws \in {x \in WordSeqs({i_type(9, 0, 9, 65535),     \* ADDIU $9,$0,-1
                                i_type(32, 0, 8, 3),        \* LB    $8,3($0)
                                r_type(8, 0, 0, 0, 17)},    \* MTHI  $8
                               SeedImgLen) : Len(x) = SeedImgLen}}
    \cup {WordsImage(<<i_type(9, 0, 9, 65535),      \* ADDIU $9,$0,-1
                       i_type(32, 0, 8, 3),         \* LB    $8,3($0)   (the byte 0xFF)
                       r_type(8, 0, 0, 0, 17),      \* MTHI  $8
                       i_type(43, 0, 9, 252),       \* SW    $9,252($0)
                       i_type(43, 0, 9, 256)>>, 0), \* SW    $9,256($0)
          WordsImage(<<i_type(15, 0, 31, 65535),    \* LUI   $31,0xFFFF
                       i_type(9, 0, 9, 65535),      \* ADDIU $9,$0,-1
                       i_type(43, 0, 9, 256)>>, 0)} \* SW    $9,256($0)

NextSeed ==
    \/ cpu.rom = NoImage /\ LoadRom(SeedImages)
    \/ cpu.rom # NoImage /\ Step(SeedCycles)
    \/ cpu.rom # NoImage /\ RunCall({2, 5}, SeedCycles)
    \/ RunIter
    \/ Seed

SpecSeed == Init /\ [][NextSeed]_vars

(***************************************************************************)
(* Claim C11                                                               *)
(***************************************************************************)
\* the values the claim XORs together: the cycle count, the 32 weighted
\* registers, HI, LO and the 64 words at 0, 4, ..., 252
SeedTerms(s) ==
    <<Int2(s.cycles)>>
    \o [i \in 1..32 |-> Mask32(Times(s.gpr[i - 1], i))]
    \o <<s.hi, s.lo>>
    \o [i \in 1..64 |-> read32(s.ram, Int2(4 * (i - 1)))]

\* bits b .. 15 of the XOR of the 16-bit limbs ts[i][k]: a bit of an XOR is
\* the parity of the number of operands that have the bit set
RECURSIVE XorBits(_, _, _)
XorBits(ts, k, b) ==
    IF b = 16 THEN 0
    ELSE (Cardinality({i \in DOMAIN ts : ((ts[i][k] % B16) \div Pow2(b)) % 2 = 1}) % 2)
             * Pow2(b)
         + XorBits(ts, k, b + 1)

\* the XOR of the terms, truncated to its low 32 bits
SeedFormula(s) ==
    LET ts == SeedTerms(s)
    IN  <<XorBits(ts, 1, 0), XorBits(ts, 2, 0)>>

Is32Bit(v) == v[1] \in 0..(B16 - 1) /\ v[2] \in 0..(B16 - 1)

\* run returned normally in this transition
RunReturned == RunIter /\ ~frame'.active /\ ret'.exc = "none"

\* C11: the value run returns (and compute_seed returns when called directly)
\* is the cycle count XOR (register[i] * (i+1) mod 2^32) for i = 0..31, XOR HI,
\* XOR LO, XOR the words at 0, 4, ..., 252, truncated to 32 bits, on the state
\* the interpreter is left in; it lies in 0 .. 2^32 - 1; and computing it
\* changes nothing: a direct call leaves the interpreter as it was, and run
\* leaves it as its last step left it.
C11_SeedValue ==
    [][ /\ (Seed \/ RunReturned) =>
              ret'.val = SeedFormula(cpu') /\ Is32Bit(ret'.val)
        /\ Seed => cpu' = cpu
        /\ RunReturned => cpu' = step(cpu).s ]_vars

\* run has returned on a state with a negative register, a negative HI, a
\* register whose weighted product exceeds 32 bits, and non-zero words at 252
\* and 256
C11_Witness ==
    /\ ret.call = "run"
    /\ ret.exc = "none"
    /\ ~frame.active
    /\ cpu.gpr[8] = Int2(-1)
    /\ cpu.gpr[9] = <<65535, 65535>>
    /\ cpu.hi = Int2(-1)
    /\ read32(cpu.ram, Int2(252)) # Zero
    /\ read32(cpu.ram, Int2(256)) # Zero
    /\ ret.val = SeedFormula(cpu)

(***************************************************************************)
(* Inputs of the instruction specification: a setup that fills registers,  *)
(* HI and LO, followed by one instruction under test.  The setups leave    *)
(*   A: $8 = -1 (LB of byte 0xFF), $9 = 0xFFFFFFFF, HI = -1, LO = 2^32 - 1 *)
(*   B: $8 = 0x80000000, $9 = 1                                            *)
(*   C: $8 = 0x100, LO = 0x100, and a taken branch pending, so that the    *)
(*      instruction under test runs in the delay slot                      *)
(***************************************************************************)
\* the opcodes, SPECIAL function codes and COP0 sub-opcodes that a branch of
\* the if/elif chain of step tests for
Known ==
    [op    |-> {0, 2, 3, 4, 5, 6, 7} \cup (8..15) \cup {16, 32, 33, 35, 36, 37, 40, 41, 43},
     funct |-> {0, 2, 3, 4, 6, 8, 9, 12, 13, 16, 17, 18, 19, 24, 25, 26, 27}
               \cup (32..39) \cup {42, 43},
     cop0  |-> {0, 4}]

\* the instructions under test; the last three sets hold one word for every
\* opcode, function code and COP0 sub-opcode that no branch tests for, with
\* register and immediate fields that would show if it were executed as one
\* of its neighbours
AluPool ==
    {r_type(8, 10, 0, 0, 26),    \* DIV   $8,$10   ($10 is 0)
     r_type(8, 10, 0, 0, 27),    \* DIVU  $8,$10
     r_type(9, 0, 0, 0, 26),     \* DIV   $9,$0
     r_type(8, 9, 0, 0, 26),     \* DIV   $8,$9
     r_type(8, 9, 0, 0, 27),     \* DIVU  $8,$9
     r_type(8, 9, 10, 0, 42),    \* SLT   $10,$8,$9
     r_type(9, 8, 10, 0, 42),    \* SLT   $10,$9,$8
     r_type(8, 9, 10, 0, 43),    \* SLTU  $10,$8,$9
     r_type(9, 8, 10, 0, 43),    \* SLTU  $10,$9,$8
     i_type(10, 8, 10, 65535),   \* SLTI  $10,$8,-1
     i_type(10, 8, 10, 1),       \* SLTI  $10,$8,1
     i_type(11, 8, 10, 65535),   \* SLTIU $10,$8,-1
     i_type(11, 8, 10, 1),       \* SLTIU $10,$8,1
     r_type(8, 0, 8, 0, 9),      \* JALR  $8,$8
     r_type(0, 0, 0, 0, 9),      \* JALR  $0,$0
     r_type(8, 0, 9, 0, 9),      \* JALR  $9,$8
     JALR_t0}                    \* JALR  $0,$8
    \cup {i_type(op, 8, 9, 260) : op \in (0..63) \ Known.op}
    \cup {r_type(8, 9, 10, 3, funct) : funct \in (0..63) \ Known.funct}
    \cup {<<16 * 1024 + sub * 32 + 9, 10 * 2048>> : sub \in (0..31) \ Known.cop0}

AluImages ==
    {WordsImage(setup \o <<w>>, 0) :
        setup \in {<<i_type(9, 0, 9, 65535),     \* A: ADDIU $9,$0,-1
                     i_type(32, 0, 8, 3),        \*    LB    $8,3($0)
                     r_type(8, 0, 0, 0, 17),     \*    MTHI  $8
                     r_type(9, 0, 0, 0, 19)>>,   \*    MTLO  $9
                   <<i_type(15, 0, 8, 32768),    \* B: LUI   $8,0x8000
                     i_type(9, 0, 9, 1)>>,       \*    ADDIU $9,$0,1
                   <<i_type(9, 0, 8, 256),       \* C: ADDIU $8,$0,0x100
                     r_type(8, 0, 0, 0, 19),     \*    MTLO  $8
                     BEQ_always>>},              \*    BEQ   $0,$0,+1
        w \in AluPool}

\* direct step calls start while cycles is below this
AluCycles == 6

NextAlu ==
    \/ cpu.rom = NoImage /\ LoadRom(AluImages)
    \/ cpu.rom # NoImage /\ Step(AluCycles)

SpecAlu == Init /\ [][NextAlu]_vars

\* the fields of the instruction word at PC
Fetched == Decode(read32(cpu.ram, cpu.pc))

\* a 16-bit immediate read as a two's-complement number
SignedImm(v) == IF v >= 32768 THEN v - 65536 ELSE v

(***************************************************************************)
(* Claim C12                                                               *)
(***************************************************************************)
\* the next step executes DIV or DIVU with a zero divisor register
DivByZero ==
    /\ CanStep(cpu)
    /\ Fetched.op = 0
    /\ Fetched.funct \in {26, 27}
    /\ cpu.gpr[Fetched.rt] = Zero

\* C12: a step that executes DIV or DIVU with register rt equal to 0 leaves HI
\* and LO unchanged, raises nothing, does not halt, sets PC to the next PC
\* (the pending branch target, or PC + 4) and counts one cycle.
C12_DivideByZero ==
    [][ (Step(AluCycles) /\ DivByZero) =>
            /\ cpu'.hi = cpu.hi
            /\ cpu'.lo = cpu.lo
            /\ ret'.exc = "none"
            /\ ~cpu'.halted
            /\ cpu'.pc = NextPc(cpu)
            /\ cpu'.cycles = cpu.cycles + 1 ]_vars

\* DIV $8,$10 has been executed with $10 = 0 while HI and LO were non-zero
C12_Witness ==
    /\ steps # <<>>
    /\ LastStep.instr = r_type(8, 10, 0, 0, 26)
    /\ LastStep.ran
    /\ LastStep.exc = "none"
    /\ cpu.gpr[10] = Zero
    /\ cpu.hi = Int2(-1)
    /\ cpu.lo = <<65535, 65535>>
    /\ cpu.cycles = 5

(***************************************************************************)
(* Claim C13                                                               *)
(***************************************************************************)
\* the next step executes a word that no branch of the dispatch tests for
UnknownInstr ==
    /\ CanStep(cpu)
    /\ \/ Fetched.op \notin Known.op
       \/ Fetched.op = 0 /\ Fetched.funct \notin Known.funct
       \/ Fetched.op = 16 /\ Fetched.rs \notin Known.cop0

\* C13: a step on an unrecognized opcode, SPECIAL function code or COP0
\* sub-opcode changes no register, HI, LO, CP0 register, memory byte or
\* output entry, does not halt and raises nothing; it only moves PC to the
\* next PC (consuming a pending branch) and counts one cycle.
C13_UnknownIsNop ==
    [][ (Step(AluCycles) /\ UnknownInstr) =>
            /\ cpu' = [cpu EXCEPT !.pc = NextPc(cpu),
                                  !.cycles = @ + 1,
                                  !.delay_slot = FALSE]
            /\ ret'.exc = "none"
            /\ ret'.ok ]_vars

\* an unrecognized word has been executed in the delay slot of a taken
\* branch, with non-zero registers and LO
C13_Witness ==
    /\ Len(steps) = 2
    /\ steps[1].pending
    /\ LastStep.ran
    /\ LastStep.instr = r_type(8, 9, 10, 3, 7)      \* funct 7 (SRAV)
    /\ cpu.pc = steps[1].target
    /\ ~cpu.delay_slot
    /\ cpu.gpr[8] # Zero
    /\ cpu.lo # Zero

(***************************************************************************)
(* Claim C17                                                               *)
(***************************************************************************)
\* the low 32 bits of a register value read as a two's-complement number
Signed32(v) ==
    LET m == Mask32(v)
    IN  IF m[1] >= 32768 THEN <<m[1] - B16, m[2]>> ELSE m

\* the next step executes SLT, SLTU, SLTI or SLTIU
SetOnLess ==
    /\ CanStep(cpu)
    /\ \/ Fetched.op = 0 /\ Fetched.funct \in {42, 43}
       \/ Fetched.op \in {10, 11}

\* what the comparison of the instruction at PC is, by the claim
LessExpected ==
    LET rs  == cpu.gpr[Fetched.rs]
        rt  == cpu.gpr[Fetched.rt]
        imm == Int2(SignedImm(Fetched.imm))
    IN  IF Fetched.op = 0
        THEN IF Fetched.funct = 42 THEN Less(Signed32(rs), Signed32(rt))
                                   ELSE Less(Mask32(rs), Mask32(rt))
        ELSE IF Fetched.op = 10 THEN Less(Signed32(rs), imm)
                                ELSE Less(Mask32(rs), Mask32(imm))

\* C17: SLT and SLTI compare their operands as signed 32-bit integers, SLTU
\* and SLTIU as unsigned 32-bit integers, and the destination register
\* receives exactly 1 when the first is less and exactly 0 otherwise, for all
\* operand values.
C17_SetOnLessThan ==
    [][ (Step(AluCycles) /\ SetOnLess) =>
            cpu'.gpr[IF Fetched.op = 0 THEN Fetched.rd ELSE Fetched.rt]
                = Flag(LessExpected) ]_vars

(***************************************************************************)
(* Claim C19                                                               *)
(***************************************************************************)
\* the next step executes JALR
JalrNext ==
    /\ CanStep(cpu)
    /\ Fetched.op = 0
    /\ Fetched.funct = 9

\* C19: a step that executes JALR at address P leaves P + 8 in register rd
\* (register 0 stays 0) and a pending branch whose target is the value
\* register rs held before the instruction, for every rs and rd, rd = rs and
\* rd = 0 included.
C19_JalrLinkAndTarget ==
    [][ (Step(AluCycles) /\ JalrNext) =>
            /\ Fetched.rd # 0 => cpu'.gpr[Fetched.rd] = Add(cpu.pc, Int2(8))
            /\ cpu'.gpr[0] = Zero
            /\ cpu'.delay_slot
            /\ cpu'.delay_pc = cpu.gpr[Fetched.rs] ]_vars

(***************************************************************************)
(* Claim C20                                                               *)
(***************************************************************************)
\* the instructions whose destination is the rt field: the immediate
\* arithmetic and logic group, the loads, and MFC0
WritesRt(d) ==
    \/ d.op \in (8..15) \cup {32, 33, 35, 36, 37}
    \/ d.op = 16 /\ d.rs = 0

\* Discarding the writes to register 0: the destination field of an
\* instruction that names register 0 is redirected to a scratch register 32
\* that no instruction reads, and the scratch register is dropped afterwards.
DiscardDecode(d) ==
    IF d.op = 0 /\ d.rd = 0 THEN [d EXCEPT !.rd = 32]
    ELSE IF WritesRt(d) /\ d.rt = 0 THEN [d EXCEPT !.rt = 32]
    ELSE d

WithScratch(s) == [s EXCEPT !.gpr = [i \in 0..32 |-> IF i = 32 THEN Zero ELSE s.gpr[i]]]

DropScratch(s) == [s EXCEPT !.gpr = [i \in 0..31 |-> s.gpr[i]]]

\* the state after a step that discards writes to register 0 and does not
\* zero it at the end (for an instruction that does not raise)
DiscardingStep(s) ==
    [DropScratch(Execute(WithScratch([s EXCEPT !.delay_slot = FALSE]),
                         DiscardDecode(Decode(read32(s.ram, s.pc)))).s)
        EXCEPT !.pc = NextPc(s), !.cycles = @ + 1]

\* C20: zeroing register 0 at the end of step is equivalent to discarding
\* the writes to register 0: for every instruction word, a step from a state
\* with register 0 equal to 0 leaves the state that the same step with
\* writes to register 0 discarded would leave.
C20_ZeroingIsDiscarding ==
    [][ (Step(AluCycles) /\ CanStep(cpu) /\ cpu.gpr[0] = Zero /\ ret'.exc = "none") =>
            cpu' = DiscardingStep(cpu) ]_vars

(***************************************************************************)
(* Inputs of the straight-line specification: the four-instruction image   *)
(*   ADDIU $t0,$zero,a ; ADDIU $t1,$zero,b ; ADDU $t2,$t0,$t1 ; BREAK      *)
(* for 16-bit immediates a and b around the sign boundary, run with a      *)
(* budget of 100 cycles on an interpreter that has just been reset         *)
(***************************************************************************)
LineImages ==
    {WordsImage(<<i_type(9, 0, 8, a),             \* ADDIU $8,$0,a
                  i_type(9, 0, 9, b),             \* ADDIU $9,$0,b
                  r_type(8, 9, 10, 0, 33),        \* ADDU  $10,$8,$9
                  BREAK>>, 0) :
        a \in {0, 1, 10, 20, 32767, 32768, 65535},
        b \in {0, 1, 10, 20, 32767, 32768, 65535}}

NextLine ==
    \/ Reset
    \/ ret.call = "reset" /\ LoadRom(LineImages)
    \/ ret.call = "load_rom" /\ RunCall({100}, 1)
    \/ RunIter

SpecLine == Init /\ [][NextLine]_vars

(***************************************************************************)
(* Claim C14                                                               *)
(***************************************************************************)
\* the immediate field of the k-th word of the loaded image
ImmOfWord(k) == cpu.rom.data[4 * k - 1] * 256 + cpu.rom.data[4 * k]

\* run(100) has returned, having been called right after reset and load_rom
LineRunEnded ==
    /\ ret.call = "run"
    /\ ret.prev = "load_rom"
    /\ ret.arg = Int2(100)
    /\ ~frame.active

\* C14: after reset, load_rom of the image ADDIU $t0,$zero,a; ADDIU
\* $t1,$zero,b; ADDU $t2,$t0,$t1; BREAK and run(100), register 10 holds
\* (sext(a) + sext(b)) mod 2^32, the interpreter is halted and the cycle count
\* is 4.
C14_AddProgram ==
    LineRunEnded =>
        /\ ret.exc = "none"
        /\ cpu.gpr[10] = Mask32(Int2(SignedImm(ImmOfWord(1)) + SignedImm(ImmOfWord(2))))
        /\ cpu.halted
        /\ cpu.cycles = 4

\* the run has ended for a = 0x8000 and b = 0xFFFF: both immediates are
\* negative and the sum wraps to 0xFFFF7FFF
C14_Witness ==
    /\ LineRunEnded
    /\ ImmOfWord(1) = 32768
    /\ ImmOfWord(2) = 65535
    /\ cpu.gpr[8] = <<65535, 32768>>
    /\ cpu.gpr[9] = <<65535, 65535>>
    /\ cpu.gpr[10] = <<65535, 32767>>
    /\ cpu.halted

(***************************************************************************)
(* Inputs of the output specification: images that select a syscall with  *)
(* $2, point $4 at a string and execute SYSCALL twice, the second time     *)
(* one byte further.  The strings are bytes of the image itself: the       *)
(* instruction bytes at 0, 2 and 3, the data word "ABC\0" at 28 (also      *)
(* through the alias 0x8000001C), the first address outside RAM, and two   *)
(* bytes stored at the very end of RAM, where the scan runs off the buffer *)
(***************************************************************************)
\* $2 = v, $4 = a as <<upper half, lower half>>, two SYSCALLs, and the data
\* word 'A' 'B' 'C' 0 at address 28
OutImage(v, a) ==
    WordsImage(<<i_type(9, 0, 2, v),        \* ADDIU $2,$0,v
                 i_type(15, 0, 4, a[1]),    \* LUI   $4,upper
                 i_type(13, 4, 4, a[2]),    \* ORI   $4,$4,lower
                 SYSCALL,
                 i_type(9, 4, 4, 1),        \* ADDIU $4,$4,1
                 SYSCALL, BREAK,
                 <<16706, 17152>>>>, 0)

\* the syscall numbers are print string, print integer, exit and an unknown
\* one; the last image sets $4 = len(ram) - 2 and the last two bytes of RAM
\* to 0xFE
OutImages ==
    {OutImage(v, a) : v \in {4, 1, 10, 5},
                      a \in {<<0, 0>>, <<0, 2>>, <<0, 3>>, <<0, 28>>, <<32768, 28>>, <<64, 0>>}}
    \cup {WordsImage(<<i_type(9, 0, 2, 4),         \* ADDIU $2,$0,4
                       i_type(15, 0, 4, 63),       \* LUI   $4,0x3F
                       i_type(13, 4, 4, 65534),    \* ORI   $4,$4,0xFFFE
                       i_type(40, 4, 4, 0),        \* SB    $4,0($4)
                       i_type(40, 4, 4, 1),        \* SB    $4,1($4)
                       SYSCALL,
                       i_type(9, 4, 4, 1),         \* ADDIU $4,$4,1
                       SYSCALL, BREAK>>, 0)}

\* direct step calls and run calls start while cycles is below this
OutCycles == 9

\* an image loaded over an earlier one, without a reset in between, is the
\* one that prints "ABC"
NextOut ==
    \/ Reset
    \/ LoadRom(IF cpu.rom = NoImage THEN OutImages ELSE {OutImage(4, <<0, 28>>)})
    \/ cpu.rom # NoImage /\ Step(OutCycles)
    \/ cpu.rom # NoImage /\ RunCall({4, 9}, OutCycles)
    \/ RunIter

SpecOut == Init /\ [][NextOut]_vars

(***************************************************************************)
(* Claim C15                                                               *)
(***************************************************************************)
\* the strings of the inputs are shorter than this
MaxStr == 8

\* the bytes from addr up to, not including, the first zero byte
StrAt(ram, addr) ==
    LET n == CHOOSE n \in 0..MaxStr :
                 /\ read8(ram, Add(addr, Int2(n))) = 0
                 /\ \A m \in 0..(n - 1) : read8(ram, Add(addr, Int2(m))) # 0
    IN  [i \in 1..n |-> read8(ram, Add(addr, Int2(i - 1)))]

\* the next step executes SYSCALL with $2 = 4
PrintString ==
    /\ CanStep(cpu)
    /\ Fetched.op = 0
    /\ Fetched.funct = 12
    /\ cpu.gpr[2] = <<0, 4>>

\* C15: a step that executes SYSCALL with register 2 equal to 4 appends
\* exactly one entry to the output buffer, after the entries already there:
\* the bytes from the address in register 4 up to, not including, the first
\* zero byte; memory and the registers are unchanged.
C15_PrintString ==
    [][ ((Step(OutCycles) \/ RunIter) /\ PrintString) =>
            /\ cpu'.output_buffer = Append(cpu.output_buffer, StrAt(cpu.ram, cpu.gpr[4]))
            /\ cpu'.ram = cpu.ram
            /\ cpu'.gpr = cpu.gpr
            /\ cpu'.hi = cpu.hi /\ cpu'.lo = cpu.lo /\ cpu'.cp0 = cpu.cp0
            /\ ret'.exc = "none" ]_vars

\* two SYSCALLs have printed "ABC" and then "BC", in this order
C15_Witness ==
    /\ steps # <<>>
    /\ LastStep.instr = SYSCALL
    /\ LastStep.ran
    /\ cpu.gpr[2] = <<0, 4>>
    /\ cpu.gpr[4] = <<0, 29>>
    /\ cpu.output_buffer = << <<65, 66, 67>>, <<66, 67>> >>

(***************************************************************************)
(* Claim C16                                                               *)
(***************************************************************************)
IsPrefix(p, q) == Len(p) <= Len(q) /\ \A i \in 1..Len(p) : q[i] = p[i]

\* C16: the output buffer is append-only across step, run and load_rom: every
\* call other than reset leaves the earlier entries in place, in order; reset
\* empties it.
C16_OutputAppendOnly ==
    [][ IF Reset THEN cpu'.output_buffer = <<>>
        ELSE IsPrefix(cpu.output_buffer, cpu'.output_buffer) ]_vars

\* load_rom has been called on an interpreter holding two entries, and they
\* are still there
C16_Witness ==
    /\ ret.call = "load_rom"
    /\ ret.prev \in {"step", "run"}
    /\ cpu.rom = OutImage(4, <<0, 28>>)
    /\ cpu.pc = Zero
    /\ cpu.output_buffer = << <<65, 66, 67>>, <<66, 67>> >>

(***************************************************************************)
(* Inputs of the ROM specification: images shorter than RAM, exactly as    *)
(* long as RAM and longer than RAM (with non-zero bytes on both sides of   *)
(* the end of RAM), loaded over one another and over bytes written with    *)
(* write8                                                                  *)
(***************************************************************************)
RomImages ==
    {WordsImage(<<ADDIU_t0>>, 0),
     \* two zero bytes
     [data |-> <<0, 0>>, pad |-> 0, tail |-> <<>>],
     \* len(ram) bytes, the last two of them 7 and 8
     [data |-> <<1>>, pad |-> RamLen - 3, tail |-> <<7, 8>>],
     \* len(ram) + 2 bytes: 9 is the last byte that fits, 10 and 11 do not
     [data |-> <<2>>, pad |-> RamLen - 2, tail |-> <<9, 10, 11>>]}

NextRom ==
    \/ Reset
    \/ LoadRom(RomImages)
    \/ Write8({Int2(1), Int2(5), Int2(RamLen - 1)}, {<<0, 171>>})

SpecRom == Init /\ [][NextRom]_vars

(***************************************************************************)
(* Claim C18                                                               *)
(***************************************************************************)
\* the offsets at which RAM before, RAM after or the image is not zero
\* (everywhere else all three hold 0)
RomSupport == DOMAIN cpu.ram \cup DOMAIN cpu'.ram \cup ImageSupport(cpu'.rom)

\* C18: load_rom copies exactly n = min(len(image), RAM size) bytes to the
\* RAM offsets 0 .. n-1, never writes past the end of RAM, and leaves the RAM
\* bytes at offsets n and above unchanged.
C18_LoadRomCopies ==
    [][ LoadRom(RomImages) =>
            LET n == Min(ImageLen(cpu'.rom), RamLen)
            IN  /\ \A p \in RomSupport :
                      /\ p < n => RamGet(cpu'.ram, p) = ImageByte(cpu'.rom, p)
                      /\ (p >= n /\ p < RamLen) =>
                             RamGet(cpu'.ram, p) = RamGet(cpu.ram, p)
                /\ \A p \in DOMAIN cpu'.ram : p < RamLen ]_vars

\* the four-byte image has been loaded over the image that is longer than
\* RAM and over a byte written at offset 5: bytes 0..3 are the image's, the
\* byte at 5 and the last byte of RAM are as they were
C18_Witness ==
    /\ ret.call = "load_rom"
    /\ cpu.rom = WordsImage(<<ADDIU_t0>>, 0)
    /\ RamGet(cpu.ram, 0) = 36
    /\ RamGet(cpu.ram, 1) = 8
    /\ RamGet(cpu.ram, 5) = 171
    /\ RamGet(cpu.ram, RamLen - 1) = 9
    /\ DOMAIN cpu.ram = {0, 1, 3, 5, RamLen - 1}

(***************************************************************************)
(* Claim C21                                                               *)
(***************************************************************************)
\* the next step executes LB, LH, LW, LBU or LHU
LoadNext ==
    /\ CanStep(cpu)
    /\ Fetched.op \in {32, 33, 35, 36, 37}

\* what the load at PC stores in rt, by the claim
LoadExpected ==
    LET addr == Add(cpu.gpr[Fetched.rs], Int2(SignedImm(Fetched.imm)))
        b    == read8(cpu.ram, addr)
        h    == 256 * b + read8(cpu.ram, Add(addr, <<0, 1>>))
    IN  CASE Fetched.op = 32 -> IF b < 128 THEN <<0, b>> ELSE <<65535, 65280 + b>>
          [] Fetched.op = 33 -> IF h < 32768 THEN <<0, h>> ELSE <<65535, h>>
          [] Fetched.op = 35 -> read32(cpu.ram, addr)
          [] Fetched.op = 36 -> <<0, b>>
          [] Fetched.op = 37 -> <<0, h>>

\* C21: a load stores a 32-bit value in rt: LB the byte b at rs +
\* sign_extend16(imm) when b < 0x80 and 0xFFFFFF00 | b otherwise, LH the
\* big-endian halfword sign-extended the same way, LBU and LHU the
\* zero-extended value, LW the big-endian word; after the load rt is in
\* 0..2^32-1.
C21_LoadValues ==
    [][ (Step(AluCycles) /\ LoadNext /\ ret'.exc = "none") =>
            /\ Fetched.rt # 0 => cpu'.gpr[Fetched.rt] = LoadExpected
            /\ Is32Bit(cpu'.gpr[Fetched.rt]) ]_vars

(***************************************************************************)
(* The built-in CPU test ROM and the boot sequence of the emulator         *)
(***************************************************************************)
\* ROMBuilder.build_n64_header: 64 bytes; title and code are strings, given
\* as the sequences of their ASCII codes, cut or padded with spaces to 20 and
\* 4 characters; the country byte at 0x3E overwrites the last character of
\* the code
build_n64_header(title, code, crc1, crc2) ==
    LET ljust(s, n) == [i \in 1..n |-> IF i <= Len(s) THEN s[i] ELSE 32]
        code_bytes  == ljust(code, 4)
    IN  PackWords(<< <<32823, 4672>>,     \* 0x80371240 at 0
                     <<15, 7824>>,        \* 0x000F1E90 at 4
                     <<32768, 1024>>,     \* 0x80000400 at 8
                     <<0, 5193>>,         \* 0x00001449 at 12
                     crc1, crc2 >>)
        \o [i \in 1..8 |-> 0]
        \o ljust(title, 20)
        \o [i \in 1..7 |-> 0]
        \o <<code_bytes[1], code_bytes[2], code_bytes[3], 69, 0>>

\* ROMBuilder.create_test_rom: the header, 22 instructions, and zero words up
\* to 1024 words of code
create_test_rom ==
    [data |-> build_n64_header(<<67, 80, 85, 32, 84, 69, 83, 84, 32, 82, 79, 77>>,  \* "CPU TEST ROM"
                               <<84, 69, 83, 84>>,                                  \* "TEST"
                               <<57005, 48879>>, <<51966, 47806>>)                  \* 0xDEADBEEF, 0xCAFEBABE
               \o PackWords(<<i_type(9, 0, 8, 10),         \* ADDIU $t0,$zero,10
                              i_type(9, 0, 9, 20),         \* ADDIU $t1,$zero,20
                              r_type(8, 9, 10, 0, 33),     \* ADDU  $t2,$t0,$t1
                              r_type(9, 8, 11, 0, 35),     \* SUBU  $t3,$t1,$t0
                              i_type(13, 0, 12, 65280),    \* ORI   $t4,$zero,0xFF00
                              i_type(13, 0, 13, 4080),     \* ORI   $t5,$zero,0x0FF0
                              r_type(12, 13, 14, 0, 36),   \* AND   $t6,$t4,$t5
                              r_type(0, 8, 15, 2, 0),      \* SLL   $t7,$t0,2
                              r_type(8, 9, 0, 0, 24),      \* MULT  $t0,$t1
                              r_type(0, 0, 16, 0, 18),     \* MFLO  $s0
                              i_type(15, 0, 17, 32784),    \* LUI   $s1,0x8010
                              i_type(43, 17, 10, 0),       \* SW    $t2,0($s1)
                              i_type(35, 17, 18, 0),       \* LW    $s2,0($s1)
                              i_type(9, 0, 19, 0),         \* ADDIU $s3,$zero,0
                              i_type(4, 8, 11, 2),         \* BEQ   $t0,$t3,+2
                              i_type(9, 0, 0, 0),          \* NOP (delay slot)
                              i_type(9, 0, 19, 999),       \* ADDIU $s3,$zero,999
                              r_type(8, 9, 20, 0, 42),     \* SLT   $s4,$t0,$t1
                              r_type(10, 11, 2, 0, 33),    \* ADDU  $v0,$t2,$t3
                              r_type(2, 16, 2, 0, 33),     \* ADDU  $v0,$v0,$s0
                              r_type(2, 20, 2, 0, 33),     \* ADDU  $v0,$v0,$s4
                              r_type(0, 0, 0, 0, 13)>>),   \* BREAK
     pad  |-> (1024 - 22) * 4,
     tail |-> <<>>]

\* PJ64Emulator.boot_rom: reset, load_rom(rom_data), run(1000)
NextBoot ==
    \/ Reset
    \/ ret.call = "reset" /\ LoadRom({create_test_rom})
    \/ ret.call = "load_rom" /\ RunCall({1000}, 1)
    \/ RunIter

SpecBoot == Init /\ [][NextBoot]_vars

(***************************************************************************)
(* Claim C22                                                               *)
(***************************************************************************)
\* run(1000) has returned, having been called right after reset and load_rom
\* of the test ROM
BootEnded ==
    /\ ret.call = "run"
    /\ ret.prev = "load_rom"
    /\ ret.arg = Int2(1000)
    /\ ~frame.active
    /\ cpu.rom = create_test_rom

\* C22: booting the CPU test ROM (reset, load_rom(create_test_rom()),
\* run(1000)) ends halted by the ROM's BREAK with $t2 (r10) = 30, $t3 (r11) =
\* 10, $t6 (r14) = 0x0F00, $t7 (r15) = 40, $s0 (r16) = 200, $s2 (r18) = 30,
\* $s3 (r19) = 0 and $s4 (r20) = 1.
C22_TestRomResults ==
    BootEnded =>
        /\ cpu.halted
        /\ cpu.gpr[10] = <<0, 30>>
        /\ cpu.gpr[11] = <<0, 10>>
        /\ cpu.gpr[14] = <<0, 3840>>
        /\ cpu.gpr[15] = <<0, 40>>
        /\ cpu.gpr[16] = <<0, 200>>
        /\ cpu.gpr[18] = <<0, 30>>
        /\ cpu.gpr[19] = Zero
        /\ cpu.gpr[20] = <<0, 1>>

(***************************************************************************)
(* Inputs of the branch and division specification: two instructions that  *)
(* fill $8 and $9, then at address 8 one conditional branch or division,   *)
(* followed by zero words (NOPs).  The branch offsets are +2, -1 (the      *)
(* branch itself) and -4 (the address 8 + 4 - 16, below 0).                *)
(***************************************************************************)
OpsImages ==
    {WordsImage(setup \o <<w>>, 0) :
        setup \in {<<i_type(9, 0, 9, 65535),     \* ADDIU $9,$0,-1     $9 = 0xFFFFFFFF
                     i_type(32, 0, 8, 3)>>,      \* LB    $8,3($0)     $8 = -1
                   <<i_type(15, 0, 8, 32768),    \* LUI   $8,0x8000    $8 = 0x80000000
                     i_type(9, 0, 9, 1)>>,       \* ADDIU $9,$0,1      $9 = 1
                   <<i_type(9, 0, 8, 65529),     \* ADDIU $8,$0,-7     $8 = 0xFFFFFFF9
                     i_type(9, 0, 9, 2)>>,       \* ADDIU $9,$0,2      $9 = 2
                   <<i_type(9, 0, 8, 7),         \* ADDIU $8,$0,7      $8 = 7
                     i_type(9, 0, 9, 65534)>>,   \* ADDIU $9,$0,-2     $9 = 0xFFFFFFFE
                   <<i_type(9, 0, 8, 5),         \* ADDIU $8,$0,5      $8 = 5
                     i_type(9, 0, 9, 5)>>},      \* ADDIU $9,$0,5      $9 = 5
        w \in {i_type(op, rs, rt, imm) :
                   op \in 4..5, rs \in {8}, rt \in {8, 9}, imm \in {2, 65535, 65532}}
              \cup {i_type(op, rs, 0, imm) :
                   op \in 6..7, rs \in {0, 8, 9}, imm \in {2, 65535, 65532}}
              \cup {r_type(rs, 17 - rs, 0, 0, funct) : rs \in {8, 9}, funct \in {26, 27}}}

\* direct step calls start while cycles is below this
OpsCycles == 5

NextOps ==
    \/ cpu.rom = NoImage /\ LoadRom(OpsImages)
    \/ cpu.rom # NoImage /\ Step(OpsCycles)

SpecOps == Init /\ [][NextOps]_vars

(***************************************************************************)
(* Claim C23                                                               *)
(***************************************************************************)
\* the next step executes BEQ, BNE, BLEZ or BGTZ
BranchNext ==
    /\ CanStep(cpu)
    /\ Fetched.op \in 4..7

\* whether the branch at PC is taken, by the claim: the registers compared as
\* 32-bit values, rs read as a signed 32-bit integer by BLEZ and BGTZ
TakenExpected ==
    LET rs == cpu.gpr[Fetched.rs]
        rt == cpu.gpr[Fetched.rt]
    IN  CASE Fetched.op = 4 -> Mask32(rs) = Mask32(rt)
          [] Fetched.op = 5 -> Mask32(rs) # Mask32(rt)
          [] Fetched.op = 6 -> ~Less(Zero, Signed32(rs))
          [] Fetched.op = 7 -> Less(Zero, Signed32(rs))

\* the latest step executed a conditional branch at P that left no branch
\* pending, and PC is P + 4
AfterNotTaken ==
    /\ steps # <<>>
    /\ LastStep.ran
    /\ LastStep.exc = "none"
    /\ Decode(LastStep.instr).op \in 4..7
    /\ ~LastStep.pending
    /\ cpu.pc = Add(LastStep.pc, Int2(4))

\* C23: BEQ is taken iff rs = rt, BNE iff rs # rt, BLEZ iff rs as a signed
\* 32-bit integer is <= 0, BGTZ iff it is > 0; a taken branch at P leaves the
\* pending target P + 4 + (sign_extend16(imm) << 2); a branch that is not
\* taken leaves no branch pending, and when none was pending before it the
\* instructions at P + 4 and P + 8 are executed next.
C23_ConditionalBranches ==
    [][ Step(OpsCycles) =>
            /\ BranchNext =>
                  /\ cpu'.delay_slot = TakenExpected
                  /\ TakenExpected =>
                        cpu'.delay_pc = Add(cpu.pc, Int2(4 + 4 * SignedImm(Fetched.imm)))
                  /\ (~TakenExpected /\ ~cpu.delay_slot) =>
                        cpu'.pc = Add(cpu.pc, Int2(4))
            /\ (AfterNotTaken /\ CanStep(cpu) /\ ret'.exc = "none") =>
                  cpu'.pc = Add(LastStep.pc, Int2(8)) ]_vars

(***************************************************************************)
(* Claim C26                                                               *)
(***************************************************************************)
\* C26: PC is a 32-bit value in every reachable state, 0 <= PC < 2^32: a
\* taken branch whose target P + 4 + (sign_extend16(imm) << 2) falls outside
\* this range wraps modulo 2^32.
C26_PcIs32Bit == Is32Bit(cpu.pc)

(***************************************************************************)
(* Inputs of the step-limit specification: the never-halting images, run   *)
(* with a budget above 2000 from a newly loaded interpreter, and then      *)
(* step and run called again once the cycle count has reached 2000         *)
(***************************************************************************)
\* calls at or above the step budget start while cycles is below this
LimitCycles == 2003

NextLimit ==
    \/ cpu.rom = NoImage /\ LoadRom(BudgetImages)
    \/ cpu.rom # NoImage /\ cpu.cycles \notin 1..(StepBudget - 1)
                         /\ RunCall({StepBudget + 1, StepBudget + 5}, LimitCycles)
    \/ cpu.cycles >= StepBudget /\ Step(LimitCycles)
    \/ RunIter

SpecLimit == Init /\ [][NextLimit]_vars

(***************************************************************************)
(* Claim C24                                                               *)
(***************************************************************************)
\* C24: once the cycle count has reached the step budget of 2000, step
\* executes no further instruction: a call of step, direct or from run,
\* returns False and leaves the interpreter state (PC, registers, memory,
\* cycle count) unchanged, so the cycle count never exceeds 2000.
C24_StepLimit ==
    [][ (Step(LimitCycles) \/ RunIter) =>
            /\ cpu.cycles >= StepBudget =>
                  /\ cpu' = cpu
                  /\ Step(LimitCycles) => ~ret'.ok
                  /\ RunIter => ~frame'.active
            /\ cpu'.cycles <= StepBudget ]_vars

(***************************************************************************)
(* Claim C25                                                               *)
(***************************************************************************)
\* C25: run never overshoots its budget: when run(max_cycles) was called with
\* the cycle count at or below max_cycles it returns with the cycle count at
\* or below max_cycles, and a call made with the cycle count already at or
\* above max_cycles (run(0) on a new interpreter, a repeated run with the
\* same budget) executes no instruction.
C25_RunWithinBudget ==
    (ret.call = "run" /\ ~frame.active /\ ret.exc = "none") =>
        /\ Int2(ret.at) = ret.arg \/ Less(Int2(ret.at), ret.arg) =>
              ~Less(ret.arg, Int2(cpu.cycles))
        /\ ~Less(Int2(ret.at), ret.arg) => cpu.cycles = ret.at

(***************************************************************************)
(* Claim C27                                                               *)
(***************************************************************************)
\* C27: load_rom changes only the memory bytes 0..n-1, the stored ROM copy,
\* PC (set to 0) and registers 29 and 28; halted, the cycle count, a pending
\* branch, HI, LO, CP0, the other registers and the output buffer keep their
\* values.  So a step after load_rom into a halted interpreter executes
\* nothing, and a step after load_rom with a branch pending executes the
\* instruction at 0 and continues at the stale branch target.
C27_LoadRomFrame ==
    [][ /\ Boot =>
              /\ cpu'.pc = Zero
              /\ cpu'.gpr[29] = StackPointer
              /\ cpu'.gpr[28] = GlobalPointer
              /\ \A i \in 0..31 : i \notin {28, 29} => cpu'.gpr[i] = cpu.gpr[i]
              /\ cpu'.halted = cpu.halted
              /\ cpu'.cycles = cpu.cycles
              /\ cpu'.delay_slot = cpu.delay_slot
              /\ cpu'.delay_pc = cpu.delay_pc
              /\ cpu'.hi = cpu.hi
              /\ cpu'.lo = cpu.lo
              /\ cpu'.cp0 = cpu.cp0
              /\ cpu'.output_buffer = cpu.output_buffer
              /\ \A p \in DOMAIN cpu.ram \cup DOMAIN cpu'.ram :
                    p >= Min(ImageLen(cpu'.rom), RamLen) =>
                        RamGet(cpu'.ram, p) = RamGet(cpu.ram, p)
        /\ (StepCall /\ ret.call = "load_rom" /\ cpu.halted) => cpu' = cpu
        /\ (StepCall /\ ret.call = "load_rom" /\ cpu.delay_slot /\ ~cpu.halted
                     /\ ret'.exc = "none") =>
              /\ steps'[Len(steps')].pc = Zero
              /\ steps'[Len(steps')].ran
              /\ cpu'.pc = cpu.delay_pc ]_vars

\* an image was loaded, without a reset, while the branch of the image before
\* it was pending: the first instruction of the new image (ADDIU $8,$0,1) has
\* been executed and PC is the stale target 8
C27_Witness ==
    /\ ret.call = "step"
    /\ ret.prev = "load_rom"
    /\ cpu.rom \in ReloadImages
    /\ steps # <<>>
    /\ LastStep.pc = Zero
    /\ LastStep.instr = ADDIU_t0
    /\ cpu.gpr[8] = <<0, 1>>
    /\ cpu.pc = <<0, 8>>
    /\ cpu.cycles = 2

(***************************************************************************)
(* Claim C28                                                               *)
(***************************************************************************)
\* the target of the jump or conditional branch of a step record, for J, JAL
\* and the conditional branches (JR and JALR take theirs from a register)
WordTarget(rec) ==
    LET d == Decode(rec.instr)
    IN  IF d.op \in 2..3
        THEN Or2(And2(Add(rec.pc, Int2(4)), <<61440, 0>>), Int2(d.target * 4))
        ELSE Add(rec.pc, Int2(4 + 4 * SignedImm(d.imm)))

\* the latest two steps executed a taken branch or jump at P and, in its
\* delay slot at P + 4, another taken branch or jump
DoubleBranch ==
    /\ Len(steps) = 2
    /\ steps[1].ran /\ steps[1].exc = "none" /\ steps[1].pending
    /\ steps[2].pc = Add(steps[1].pc, Int2(4))
    /\ steps[2].ran /\ steps[2].exc = "none" /\ steps[2].pending

ScanEnds(ram, addr) ==
    \E n \in 0..RamLen :
        /\ read8(ram, Add(addr, Int2(n))) = 0
        /\ \A m \in 0..(n - 1) : read8(ram, Add(addr, Int2(m))) # 0
        /\ n = 0 \/ Phys(addr) + n <= RamLen

Product(a, b) ==
    LET m  == MulLoHi(a, b)
        hi == Signed32(m[2])
    IN  <<(hi[1] * B16 + hi[2]) * B16 + m[1][1], m[1][2]>>

\* the next step executes DIV or DIVU with a non-zero divisor
DivideNext ==
    /\ CanStep(cpu)
    /\ Fetched.op = 0
    /\ Fetched.funct \in {26, 27}
    /\ Mask32(cpu.gpr[Fetched.rt]) # Zero

\* C30: after DIV with a non-zero divisor, signed(LO) * signed(rt) +
\* signed(HI) = signed(rs), and HI is zero or has the sign of the dividend
\* (LO is the quotient truncated toward zero); after DIVU with a non-zero
\* divisor, LO * rt + HI = rs and 0 <= HI < rt on the unsigned values.
C30_DivisionIdentity ==
    [][ (Step(OpsCycles) /\ DivideNext) =>
            IF Fetched.funct = 26
            THEN LET rs == Signed32(cpu.gpr[Fetched.rs])
                     rt == Signed32(cpu.gpr[Fetched.rt])
                     lo == Signed32(cpu'.lo)
                     hi == Signed32(cpu'.hi)
                 IN  /\ Add(Product(lo, rt), hi) = rs
                     /\ hi = Zero \/ (Less(hi, Zero) <=> Less(rs, Zero))
            ELSE LET rs == Mask32(cpu.gpr[Fetched.rs])
                     rt == Mask32(cpu.gpr[Fetched.rt])
                 IN  /\ Add(Product(cpu'.lo, rt), cpu'.hi) = rs
                     /\ ~Less(cpu'.hi, Zero)
                     /\ Less(cpu'.hi, rt) ]_vars

====
